---- MODULE Spec2Model ----
(***************************************************************************)
(* State-machine model of the two range readers of markandrus/s3readerat:  *)
(*   - S3ReaderAt  (src/s3readerat.go): io.ReaderAt over S3 GetObject with *)
(*     a cached size and region recovery;                                  *)
(*   - SeekingS3   (src/unnamed/part_000): io.ReadSeeker / io.ReaderAt     *)
(*     with a cursor and a last-range cache.                               *)
(* One reader is constructed in Init; every action is one whole call of a  *)
(* public method, with the backend's answers drawn nondeterministically.   *)
(***************************************************************************)
EXTENDS Integers, Sequences, FiniteSets, TLC

VARIABLES
  kind,        \* which reader was constructed: "S3ReaderAt" or "SeekingS3"
  objSize,     \* the remote object's true length in bytes
  given,       \* the Options the constructor was called with
  newErr,      \* the error NewWithOptions returned ("nil": a reader exists)
  size,        \* ra.size / s.size: -1 unknown, else the cached length
  client,      \* ra.client / s.client
  options,     \* ra.options: NoOptions, or the Region of the s3.Options
  offset,      \* s.offset: the cursor of SeekingS3
  last,        \* s.last: the cached window's bytes (nil or a buffer)
  lastOffset,  \* s.lastOffset: absolute offset of the cached window
  made,        \* per region: regional clients built by s3ClientInRegion
  headSent,    \* HeadObject requests sent since construction
  headOk,      \* of those, the ones answered with a valid length
  call,        \* the call that has just ended (NoCall: none pending)
  ret,         \* what that call returned: n, err, data written to the buffer
  reqs,        \* the backend requests that call sent, in order
  pre,         \* the reader's fields as they were when that call started
  script,      \* the caller's progress through a fixed sequence of calls
  threads      \* per goroutine sharing the reader: where its call stands

vars == <<kind, objSize, given, newErr, size, client, options, offset, last,
          lastOffset, made, headSent, headOk, call, ret, reqs, pre, script,
          threads>>

----------------------------------------------------------------------------
(* Bounds of the model. *)

MaxSize == 3     \* objects of 0..MaxSize bytes
MaxLen == 3      \* buffers of 0..MaxLen bytes
MaxCount == 3    \* cap of the lifetime counters headSent and made
MaxCut == 1      \* bytes a response body may fall short by
MaxShared == 2   \* object and buffer sizes when goroutines share a SeekingS3

----------------------------------------------------------------------------
(* The remote object and the backend. *)

Regions == {"A", "B"}
DefaultRegion == "A"

\* The object's byte at 0-based index i; distinct per index, so that a
\* slice identifies the offsets it was taken from.
ObjByte(i) == 16 + i

\* object[first .. lastIdx], both inclusive, 0-based.
ObjSlice(first, lastIdx) ==
  [k \in 1..(lastIdx - first + 1) |-> ObjByte(first + k - 1)]

Min(a, b) == IF a < b THEN a ELSE b

Prefix(s, n) == [k \in 1..n |-> s[k]]

\* Go's s[from:to] of a byte slice (0-based, to exclusive).
Slice(s, from, to) == [k \in 1..(to - from) |-> s[from + k]]

NoInput == <<>>

Response(k, c, r, cl, b, t) ==
  [kind |-> k, code |-> c, region |-> r, contentLength |-> cl,
   body |-> b, tail |-> t]

NoResp == Response("none", 0, "", 0, <<>>, "eof")

\* A failed request: an awshttp.ResponseError with a status code and
\* possibly the X-Amz-Bucket-Region header, or an error of another type.
HttpError(c, r) == Response("http", c, r, 0, <<>>, "eof")
NetError == Response("net", 0, "", 0, <<>>, "eof")

\* What a request may fail with: a redirect without the region header, a
\* redirect naming a region, a refusal naming a region, a transport error.
Failures ==
  {HttpError(301, "")}
  \cup {HttpError(301, r) : r \in Regions}
  \cup {HttpError(403, r) : r \in Regions}
  \cup {NetError}

\* HeadObject answers: the object's length, a negative length, a failure.
HeadResponses ==
  {Response("ok", 200, "", objSize, <<>>, "eof"),
   Response("ok", 200, "", -1, <<>>, "eof")} \cup Failures

\* GetObject answers for Range: bytes=first-lastIdx. A satisfiable range is
\* served with the object's bytes, cut to the object's end; the body may
\* fall short by up to MaxCut bytes, ending cleanly ("eof") or with a read
\* error ("err"). A range that is malformed or starts past the end fails.
GetResponses(first, lastIdx) ==
  IF first < 0 \/ lastIdx < first \/ first >= objSize
  THEN Failures \cup {HttpError(416, "")}
  ELSE LET full == ObjSlice(first, Min(lastIdx, objSize - 1))
       IN {Response("ok", 206, "", Len(full), full, "eof")}
          \cup {Response("ok", 206, "", Len(full),
                         Prefix(full, Len(full) - cut), t) :
                  cut \in 1..Min(MaxCut, Len(full)), t \in {"eof", "err"}}
          \cup Failures

----------------------------------------------------------------------------
(* Errors and clients. *)

Error(t, m, c) == [type |-> t, msg |-> m, cause |-> c]
Nil == Error("nil", "", NoResp)
EOF == Error("EOF", "", NoResp)
ErrUnexpectedEOF == Error("ErrUnexpectedEOF", "", NoResp)
ErrInvalid == Error("ErrInvalid", "", NoResp)

\* errors.Wrap(err, msg): a new error whose cause is err. With msg "" it
\* stands for err returned as it is (SeekingS3 does not wrap).
Wrap(resp, m) == Error("backend", m, resp)

NilClient == [region |-> "", origin |-> "nil"]
NoOptions == "nil"
NilBuffer == [nil |-> TRUE, bytes |-> <<>>]
Buffer(b) == [nil |-> FALSE, bytes |-> b]

\* A *int64 as Options.Size carries it: absent, or a value.
NoSize == [set |-> FALSE, val |-> 0]
SomeSize(v) == [set |-> TRUE, val |-> v]

CallerClient == [region |-> DefaultRegion, origin |-> "caller"]

----------------------------------------------------------------------------
(* Construction. *)

\* Mutant: a supplied size of 0 is refused like a negative one.
NewWithOptions_zeroInvalid(o) ==
  IF o.Client = NilClient /\ o.Options = NoOptions
  THEN [err |-> "one of Client or Options is required",
        size |-> -1, client |-> NilClient, options |-> NoOptions]
  ELSE IF o.Client # NilClient /\ o.Options # NoOptions
  THEN [err |-> "only one of Client or Options can be provided",
        size |-> -1, client |-> NilClient, options |-> NoOptions]
  ELSE IF o.Size.set /\ o.Size.val <= 0
  THEN [err |-> "provided size is invalid",
        size |-> -1, client |-> NilClient, options |-> NoOptions]
  ELSE [err |-> "nil",
        size |-> IF o.Size.set THEN o.Size.val ELSE -1,
        client |-> o.Client, options |-> o.Options]

\* NewWithOptions: the reader's fields, or the error and no reader.
NewWithOptions(o) ==
  IF o.Client = NilClient /\ o.Options = NoOptions
  THEN [err |-> "one of Client or Options is required",
        size |-> -1, client |-> NilClient, options |-> NoOptions]
  ELSE IF o.Client # NilClient /\ o.Options # NoOptions
  THEN [err |-> "only one of Client or Options can be provided",
        size |-> -1, client |-> NilClient, options |-> NoOptions]
  ELSE IF o.Size.set /\ o.Size.val < 0
  THEN [err |-> "provided size is invalid",
        size |-> -1, client |-> NilClient, options |-> NoOptions]
  ELSE [err |-> "nil",
        size |-> IF o.Size.set THEN o.Size.val ELSE -1,
        client |-> o.Client, options |-> o.Options]

\* seekinghttp.New: cursor 0, size unknown, no cached window.
New(c) ==
  [err |-> "nil", size |-> -1, client |-> c, options |-> NoOptions]

\* The Options a caller may pass for an object of n bytes: either, both or
\* neither of Client and Options; no size, the object's size, or -1.
CallerOptions(n) ==
  [Client : {NilClient, CallerClient},
   Options : {NoOptions, DefaultRegion},
   Size : {NoSize, SomeSize(n), SomeSize(-1)}]

NoCall == [op |-> "none", len |-> 0, off |-> 0, whence |-> 0]
NoRet == [n |-> 0, err |-> Nil, data |-> <<>>]

Fields ==
  [size |-> size, client |-> client, offset |-> offset, last |-> last,
   lastOffset |-> lastOffset]

InitWith(k, n, o, r) ==
  /\ kind = k
  /\ objSize = n
  /\ given = o
  /\ newErr = r.err
  /\ size = r.size
  /\ client = r.client
  /\ options = r.options
  /\ offset = 0
  /\ last = NilBuffer
  /\ lastOffset = 0
  /\ made = [rg \in Regions |-> 0]
  /\ headSent = 0
  /\ headOk = 0
  /\ call = NoCall
  /\ ret = NoRet
  /\ reqs = <<>>
  /\ pre = [size |-> r.size, client |-> r.client, offset |-> 0,
            last |-> NilBuffer, lastOffset |-> 0]

\* No fixed sequence of calls: the caller calls as it likes.
NoScript == [k |-> 0, pc |-> 0, served |-> TRUE]

InitSeeking(n) ==
  InitWith("SeekingS3", n,
           [Client |-> CallerClient, Options |-> NoOptions, Size |-> NoSize],
           New(CallerClient))

\* The goroutines that may share one reader.
Tids == {1, 2}

\* A goroutine that is in no call.
ThreadIdle ==
  [pc |-> "idle", op |-> "none", len |-> 0, off |-> 0, verb |-> "none",
   c |-> NilClient, region |-> "", cl |-> 0, lastIdx |-> 0, n |-> 0,
   err |-> "nil", data |-> <<>>]

Init ==
  /\ script = NoScript
  /\ threads = [t \in Tids |-> ThreadIdle]
  /\ \E n \in 0..MaxSize :
       \/ \E o \in CallerOptions(n) :
            InitWith("S3ReaderAt", n, o, NewWithOptions(o))
       \/ InitSeeking(n)

----------------------------------------------------------------------------
(* The reader's fields threaded through one call, with the requests sent. *)

Reader ==
  [size |-> size, client |-> client, options |-> options,
   offset |-> offset, last |-> last, lastOffset |-> lastOffset,
   made |-> made, reqs |-> <<>>]

\* One request sent through client c, and the backend's answer to it.
Sent(st, verb, c, input, resp) ==
  [st EXCEPT !.reqs =
     Append(@, [verb |-> verb, via |-> c, input |-> input, resp |-> resp])]

Result(st, n, err, data) == [st |-> st, n |-> n, err |-> err, data |-> data]

----------------------------------------------------------------------------
(* S3ReaderAt: clients and region recovery. *)

\* s3Client: ra.client, built from ra.options on first use and kept.
s3Client(st) ==
  IF st.client # NilClient THEN [st |-> st, client |-> st.client]
  ELSE IF st.options = NoOptions THEN [st |-> st, client |-> NilClient]
  ELSE LET c == [region |-> st.options, origin |-> "options"]
       IN [st |-> [st EXCEPT !.client = c], client |-> c]

\* Mutant: the retry goes through ra.client whatever region was named.
s3ClientInRegion_default(st, region) ==
  IF st.options = NoOptions THEN [st |-> st, client |-> NilClient]
  ELSE [st |-> st, client |-> st.client]

\* s3ClientInRegion: nil in single-region mode; ra.client when it is bound
\* to the region already; otherwise a new client, which is returned and
\* not stored.
s3ClientInRegion(st, region) ==
  IF st.options = NoOptions THEN [st |-> st, client |-> NilClient]
  ELSE IF st.options = region /\ st.client # NilClient
  THEN [st |-> st, client |-> st.client]
  ELSE [st |-> [st EXCEPT !.made[region] = @ + 1],
        client |-> [region |-> region, origin |-> "regional"]]

\* Mutant: the region header is taken from a response of any status.
extractRegionFromError_anyStatus(err) ==
  IF err.kind = "http"
  THEN IF err.region = "" THEN [region |-> "", failed |-> TRUE]
       ELSE [region |-> err.region, failed |-> FALSE]
  ELSE [region |-> "", failed |-> TRUE]

\* extractRegionFromError: the X-Amz-Bucket-Region header of a 3xx
\* ResponseError, or the error itself.
extractRegionFromError(err) ==
  IF err.kind = "http"
  THEN IF err.code \div 100 # 3 THEN [region |-> "", failed |-> TRUE]
       ELSE IF err.region = "" THEN [region |-> "", failed |-> TRUE]
       ELSE [region |-> err.region, failed |-> FALSE]
  ELSE [region |-> "", failed |-> TRUE]

\* The shared shape of headObject and getObject: one request through
\* s3Client(); on a failure that names a region, the same input once more
\* through s3ClientInRegion(region), whose answer is returned as it is.
withRegionRetry(st, verb, input, answers) ==
  LET c1 == s3Client(st)
  IN UNION {
       LET s1 == Sent(c1.st, verb, c1.client, input, r1)
           rg == extractRegionFromError(r1)
           c2 == s3ClientInRegion(s1, rg.region)
       IN IF r1.kind = "ok" THEN {[st |-> s1, resp |-> r1]}
          ELSE IF rg.failed THEN {[st |-> s1, resp |-> r1]}
          ELSE IF c2.client = NilClient THEN {[st |-> s1, resp |-> r1]}
          ELSE {[st |-> Sent(c2.st, verb, c2.client, input, r2),
                 resp |-> r2] : r2 \in answers}
       : r1 \in answers }

headObject(st) == withRegionRetry(st, "HeadObject", NoInput, HeadResponses)

getObject(st, rng) ==
  withRegionRetry(st, "GetObject", rng, GetResponses(rng[1], rng[2]))

----------------------------------------------------------------------------
(* S3ReaderAt: Size and ReadAt. *)

\* Mutant: a cached size of 0 is taken for "unknown".
raSizeCached_positive(sz) == sz > 0

\* The test of Size for a size that is already known.
raSizeCached(sz) == sz >= 0

\* Mutant: Size reports a failed HeadObject as success with size -1.
S3ReaderAt_Size_ignoresFailure(st) ==
  IF raSizeCached(st.size) THEN {Result(st, st.size, Nil, <<>>)}
  ELSE { IF h.resp.kind # "ok"
         THEN Result(h.st, -1, Nil, <<>>)
         ELSE IF h.resp.contentLength < 0
         THEN Result(h.st, -1,
                     Error("invalid", "S3 object size is invalid", NoResp),
                     <<>>)
         ELSE Result([h.st EXCEPT !.size = h.resp.contentLength],
                     h.resp.contentLength, Nil, <<>>)
         : h \in headObject(st) }

S3ReaderAt_Size(st) ==
  IF raSizeCached(st.size) THEN {Result(st, st.size, Nil, <<>>)}
  ELSE { IF h.resp.kind # "ok"
         THEN Result(h.st, -1, Wrap(h.resp, "S3 HeadObject failed"), <<>>)
         ELSE IF h.resp.contentLength < 0
         THEN Result(h.st, -1,
                     Error("invalid", "S3 object size is invalid", NoResp),
                     <<>>)
         ELSE Result([h.st EXCEPT !.size = h.resp.contentLength],
                     h.resp.contentLength, Nil, <<>>)
         : h \in headObject(st) }

\* io.ReadFull(resp.Body, p) for a buffer of plen bytes.
ReadFull(resp, plen) ==
  IF Len(resp.body) >= plen THEN [n |-> plen, err |-> Nil]
  ELSE IF resp.tail = "err"
  THEN [n |-> Len(resp.body), err |-> Error("body", "", NoResp)]
  ELSE IF Len(resp.body) = 0 THEN [n |-> 0, err |-> EOF]
  ELSE [n |-> Len(resp.body), err |-> ErrUnexpectedEOF]

\* Mutant: the clamp compares with the size instead of the last index.
clampNeeded_offByOne(sz, len, off) == sz # -1 /\ off + len - 1 > sz

\* "Clamp down the requested range.": whether the range
\* [off, off+len-1] ends past the last byte of an object of sz bytes.
clampNeeded(sz, len, off) == sz # -1 /\ off + len - 1 > sz - 1

S3ReaderAt_ReadAt(st, len, off) ==
  IF len = 0 THEN {Result(st, 0, Nil, <<>>)}
  ELSE UNION {
    IF sz.err # Nil THEN {Result(sz.st, 0, sz.err, <<>>)}
    ELSE
      LET s1 == sz.st
          reqFirst == off
          clamp == clampNeeded(s1.size, len, off)
          reqLast == IF clamp THEN s1.size - 1 ELSE off + len - 1
          returnErr == IF clamp THEN EOF ELSE Nil
          plen == IF clamp THEN reqLast - reqFirst + 1 ELSE len
      IN IF clamp /\ reqLast < reqFirst THEN {Result(s1, 0, EOF, <<>>)}
         ELSE {
           IF g.resp.kind # "ok"
           THEN Result(g.st, 0, Wrap(g.resp, "S3 GetObject error"), <<>>)
           ELSE
             LET rf == ReadFull(g.resp, plen)
                 e1 == IF rf.err = ErrUnexpectedEOF THEN EOF ELSE rf.err
                 e2 == IF e1 = Nil /\ returnErr # Nil THEN returnErr ELSE e1
             IN Result(g.st, rf.n, e2, Prefix(g.resp.body, rf.n))
           : g \in getObject(s1, <<reqFirst, reqLast>>) }
    : sz \in S3ReaderAt_Size(st) }

----------------------------------------------------------------------------
(* SeekingS3: Size, ReadAt, Read and Seek. *)

SeekStart == 0
SeekCurrent == 1
SeekEnd == 2

\* Mutant: a cached size of 0 is taken for "unknown".
sSizeCached_positive(sz) == sz > 0

\* "Use cached result."
sSizeCached(sz) == sz > -1

SeekingS3_Size(st) ==
  IF sSizeCached(st.size) THEN {Result(st, st.size, Nil, <<>>)}
  ELSE { LET s1 == Sent(st, "HeadObject", st.client, NoInput, r)
         IN IF r.kind # "ok" THEN Result(s1, 0, Wrap(r, ""), <<>>)
            ELSE IF r.contentLength < 0
            THEN Result(s1, 0,
                        Error("invalid", "no content length for Size()",
                              NoResp), <<>>)
            ELSE Result([s1 EXCEPT !.size = r.contentLength],
                        r.contentLength, Nil, <<>>)
         : r \in HeadResponses }

\* fmtRange(from, l): the range bytes=from-to as the pair <<from, to>>.
fmtRange(from, l) ==
  IF l = 0 THEN <<from, from>> ELSE <<from, from + (l - 1)>>

\* The cache test of ReadAt: a window exists, off lies after its start and
\* off+len before its end.
cacheHit(st, len, off) ==
  /\ ~st.last.nil
  /\ off > st.lastOffset
  /\ off + len < st.lastOffset + Len(st.last.bytes)

\* Mutant: a cache hit copies from the start of the window.
cacheCopy_fromStart(st, len, off) == Slice(st.last.bytes, 0, len)

\* copy(buf, s.last.Bytes()[start:end-s.lastOffset]) of a cache hit.
cacheCopy(st, len, off) ==
  LET start == off - st.lastOffset
      end == off + len
  IN Slice(st.last.bytes, start, end - st.lastOffset)

SeekingS3_ReadAt(st, len, off) ==
  UNION {
    IF sz.err # Nil THEN {Result(sz.st, 0, sz.err, <<>>)}
    ELSE IF off >= sz.n THEN {Result(sz.st, 0, EOF, <<>>)}
    ELSE IF cacheHit(sz.st, len, off)
    THEN {Result(sz.st, len, Nil, cacheCopy(sz.st, len, off))}
    ELSE
      LET bytesToRead == IF off + len > sz.n THEN sz.n - off ELSE len
          rng == fmtRange(off, bytesToRead)
          \* s.last is created or Reset() before the request is sent
          s1 == [sz.st EXCEPT !.last = Buffer(<<>>)]
      IN { LET s2 == Sent(s1, "GetObject", s1.client, rng, r)
           IN IF r.kind # "ok" THEN Result(s2, 0, Wrap(r, ""), <<>>)
              ELSE
                \* s.last.ReadFrom(resp.Body): what arrived, errors dropped
                LET s3 == [s2 EXCEPT !.last = Buffer(r.body),
                                     !.lastOffset = off]
                    n == Min(Len(r.body), len)
                IN Result(s3, bytesToRead, Nil, Prefix(r.body, n))
           : r \in GetResponses(rng[1], rng[2]) }
    : sz \in SeekingS3_Size(st) }

\* Mutant: Read leaves the cursor where it was.
SeekingS3_Read_noAdvance(st, len) == SeekingS3_ReadAt(st, len, st.offset)

SeekingS3_Read(st, len) ==
  { IF r.err = Nil
    THEN Result([r.st EXCEPT !.offset = @ + r.n], r.n, r.err, r.data)
    ELSE r
    : r \in SeekingS3_ReadAt(st, len, st.offset) }

\* Mutant: the cursor is moved before the whence and the size are checked.
SeekingS3_Seek_movesFirst(st, off, whence) ==
  IF whence = SeekStart
  THEN {Result([st EXCEPT !.offset = off], off, Nil, <<>>)}
  ELSE IF whence = SeekCurrent
  THEN {Result([st EXCEPT !.offset = @ + off], st.offset + off, Nil, <<>>)}
  ELSE IF whence = SeekEnd
  THEN { IF sz.err # Nil
         THEN Result([sz.st EXCEPT !.offset = off], 0, sz.err, <<>>)
         ELSE Result([sz.st EXCEPT !.offset = sz.n + off], sz.n + off,
                     Nil, <<>>)
         : sz \in SeekingS3_Size(st) }
  ELSE {Result([st EXCEPT !.offset = off], 0, ErrInvalid, <<>>)}

SeekingS3_Seek(st, off, whence) ==
  IF whence = SeekStart
  THEN {Result([st EXCEPT !.offset = off], off, Nil, <<>>)}
  ELSE IF whence = SeekCurrent
  THEN {Result([st EXCEPT !.offset = @ + off], st.offset + off, Nil, <<>>)}
  ELSE IF whence = SeekEnd
  THEN { IF sz.err # Nil THEN Result(sz.st, 0, sz.err, <<>>)
         ELSE Result([sz.st EXCEPT !.offset = sz.n + off], sz.n + off,
                     Nil, <<>>)
         : sz \in SeekingS3_Size(st) }
  ELSE {Result(st, 0, ErrInvalid, <<>>)}

----------------------------------------------------------------------------
(* Actions: one whole call each. *)

Lens == 0..MaxLen
Offsets == -1..MaxSize
SeekOffsets == (0 - MaxSize)..MaxSize
Whences == {SeekStart, SeekCurrent, SeekEnd, 3}

HeadCount(rs) == Cardinality({i \in 1..Len(rs) : rs[i].verb = "HeadObject"})
HeadOkCount(rs) ==
  Cardinality({i \in 1..Len(rs) : /\ rs[i].verb = "HeadObject"
                                  /\ rs[i].resp.kind = "ok"
                                  /\ rs[i].resp.contentLength >= 0})
GetCount(rs) == Cardinality({i \in 1..Len(rs) : rs[i].verb = "GetObject"})

\* A call can be made on a reader of kind k that was constructed, once the
\* caller has taken the previous call's result.
Callable(k) == kind = k /\ newErr = "nil" /\ call = NoCall

\* The call `name` ran from the current state and ended as r. The lifetime
\* counters are capped at MaxCount.
Apply(name, len, off, whence, r) ==
  /\ headSent + HeadCount(r.st.reqs) <= MaxCount
  /\ \A rg \in Regions : r.st.made[rg] <= MaxCount
  /\ call' = [op |-> name, len |-> len, off |-> off, whence |-> whence]
  /\ pre' = Fields
  /\ size' = r.st.size
  /\ client' = r.st.client
  /\ offset' = r.st.offset
  /\ last' = r.st.last
  /\ lastOffset' = r.st.lastOffset
  /\ made' = r.st.made
  /\ headSent' = headSent + HeadCount(r.st.reqs)
  /\ headOk' = headOk + HeadOkCount(r.st.reqs)
  /\ reqs' = r.st.reqs
  /\ ret' = [n |-> r.n, err |-> r.err, data |-> r.data]
  /\ UNCHANGED <<kind, objSize, given, newErr, options>>

RaSize ==
  /\ Callable("S3ReaderAt")
  /\ \E r \in S3ReaderAt_Size(Reader) :
    Apply("Size", 0, 0, 0, r)
  /\ UNCHANGED <<script, threads>>

RaReadAt ==
  /\ Callable("S3ReaderAt")
  /\ \E len \in Lens, off \in Offsets :
    \E r \in S3ReaderAt_ReadAt(Reader, len, off) :
      Apply("ReadAt", len, off, 0, r)
  /\ UNCHANGED <<script, threads>>

SeekingSize ==
  /\ Callable("SeekingS3")
  /\ \E r \in SeekingS3_Size(Reader) :
    Apply("Size", 0, 0, 0, r)
  /\ UNCHANGED <<script, threads>>

SeekingReadAt ==
  /\ Callable("SeekingS3")
  /\ \E len \in Lens, off \in Offsets :
    \E r \in SeekingS3_ReadAt(Reader, len, off) :
      Apply("ReadAt", len, off, 0, r)
  /\ UNCHANGED <<script, threads>>

SeekingRead ==
  /\ Callable("SeekingS3")
  /\ \E len \in Lens :
    \E r \in SeekingS3_Read(Reader, len) :
      Apply("Read", len, offset, 0, r)
  /\ UNCHANGED <<script, threads>>

\* Seek arguments are drawn so that the cursor stays within Offsets.
SeekingSeek ==
  /\ Callable("SeekingS3")
  /\ \E off \in SeekOffsets, whence \in Whences :
    \E r \in SeekingS3_Seek(Reader, off, whence) :
      /\ r.st.offset \in Offsets
      /\ Apply("Seek", 0, off, whence, r)
  /\ UNCHANGED <<script, threads>>

\* The caller takes the result of the call that ended; the buffer and the
\* record of the call go out of scope, the reader's fields stay.
Return ==
  /\ call # NoCall
  /\ call' = NoCall
  /\ ret' = NoRet
  /\ reqs' = <<>>
  /\ pre' = Fields
  /\ UNCHANGED <<kind, objSize, given, newErr, size, client, options,
                 offset, last, lastOffset, made, headSent, headOk, script,
                 threads>>

Next ==
  \/ Return
  \/ RaSize
  \/ RaReadAt
  \/ SeekingSize
  \/ SeekingReadAt
  \/ SeekingRead
  \/ SeekingSeek

Spec == Init /\ [][Next]_vars

----------------------------------------------------------------------------
(* The seek-then-read sequence: after any calls of its own, the caller of  *)
(* a SeekingS3 runs Seek(0, SeekStart), Seek(-k, SeekEnd), Read(k bytes),  *)
(* Read(k bytes), for some k in 1..size.                                   *)

\* Every request in rs was answered with success: a valid length, a body
\* that arrived whole.
Served(rs) ==
  \A i \in 1..Len(rs) :
    /\ rs[i].resp.kind = "ok"
    /\ rs[i].resp.contentLength >= 0
    /\ Len(rs[i].resp.body) = rs[i].resp.contentLength
    /\ rs[i].resp.tail = "eof"

\* The sequence moves on by one call, which ended as r.
Advance(r) ==
  script' = [script EXCEPT !.pc = @ + 1,
                           !.served = @ /\ Served(r.st.reqs)]

ScriptSeekStart ==
  /\ Callable("SeekingS3")
  /\ script.k > 0
  /\ script.pc = 0
  /\ \E r \in SeekingS3_Seek(Reader, 0, SeekStart) :
       Apply("Seek", 0, 0, SeekStart, r) /\ Advance(r)
  /\ UNCHANGED threads

ScriptSeekEnd ==
  /\ Callable("SeekingS3")
  /\ script.pc = 1
  /\ \E r \in SeekingS3_Seek(Reader, 0 - script.k, SeekEnd) :
       Apply("Seek", 0, 0 - script.k, SeekEnd, r) /\ Advance(r)
  /\ UNCHANGED threads

ScriptRead ==
  /\ Callable("SeekingS3")
  /\ script.pc \in {2, 3}
  /\ \E r \in SeekingS3_Read(Reader, script.k) :
       Apply("Read", script.k, offset, 0, r) /\ Advance(r)
  /\ UNCHANGED threads

\* Until the sequence starts the caller calls as it likes.
Prelude ==
  /\ script.pc = 0
  /\ \/ SeekingSize
     \/ SeekingReadAt
     \/ SeekingRead
     \/ SeekingSeek

InitSeek ==
  \E n \in 1..MaxSize :
    /\ InitSeeking(n)
    /\ \E k \in 1..n : script = [k |-> k, pc |-> 0, served |-> TRUE]
    /\ threads = [t \in Tids |-> ThreadIdle]

NextSeek ==
  \/ Return
  \/ Prelude
  \/ ScriptSeekStart
  \/ ScriptSeekEnd
  \/ ScriptRead

SpecSeek == InitSeek /\ [][NextSeek]_vars

----------------------------------------------------------------------------

(* The sequential scan: after any calls of its own, the caller of a        *)
(* SeekingS3 whose cursor lies in 0..size reads into a buffer of k bytes   *)
(* again and again until a Read returns an error, as io.Copy does; during  *)
(* the scan the backend answers every request with success.                *)

\* The scan starts with a buffer of k bytes, or goes on with the buffer it
\* has: Read(k bytes), served by the backend.
ScanRead ==
  /\ Callable("SeekingS3")
  /\ offset \in 0..objSize
  /\ \E k \in 1..MaxLen :
       /\ script.pc = 1 => k = script.k
       /\ \E r \in SeekingS3_Read(Reader, k) :
            /\ Served(r.st.reqs)
            /\ Apply("Read", k, offset, 0, r)
       /\ script' = [script EXCEPT !.k = k, !.pc = 1]
  /\ UNCHANGED threads

\* The loop takes the result of a Read that returned no error and goes on;
\* an error ends the loop.
ScanReturn ==
  /\ script.pc = 1
  /\ ret.err = Nil
  /\ Return

\* Until the scan starts the caller places the cursor with Seek and fills
\* the cache with ReadAt, which between them also resolve the size.
ScanPrelude ==
  /\ script.pc = 0
  /\ \/ Return
     \/ SeekingReadAt
     \/ SeekingSeek

InitScan ==
  /\ threads = [t \in Tids |-> ThreadIdle]
  /\ script = NoScript
  /\ \E n \in 0..MaxSize : InitSeeking(n)

NextScan ==
  \/ ScanPrelude
  \/ ScanRead
  \/ ScanReturn

\* The loop is a sequential program: it makes its next call, and takes the
\* result of the call that returned, without pausing forever.
SpecScan ==
  /\ InitScan
  /\ [][NextScan]_vars
  /\ WF_vars(ScanRead)
  /\ WF_vars(ScanReturn)

----------------------------------------------------------------------------

(* S3ReaderAt shared by goroutines: Size and ReadAt taken apart into their *)
(* accesses to the fields ra.size and ra.client, which the code makes      *)
(* without a lock or an atomic; the goroutines' steps interleave freely.   *)

\* An int64 is written and read as two machine words on a 32-bit build, so
\* a read that races with a write may see one word of each value. The words
\* are taken HalfWord wide here, the values of the model being small.
HalfWord == 32768

Unsigned(x) == x % (HalfWord * HalfWord)

Signed(u) == IF u >= (HalfWord * HalfWord) \div 2
             THEN u - HalfWord * HalfWord ELSE u

\* What a read of an int64 that holds old may see besides old and new while
\* new is being written.
Torn(old, new) ==
  {Signed((Unsigned(new) \div HalfWord) * HalfWord
            + (Unsigned(old) % HalfWord)),
   Signed((Unsigned(old) \div HalfWord) * HalfWord
            + (Unsigned(new) % HalfWord))} \ {old, new}

\* The access to shared memory goroutine t makes in its next step.
NoAccess == [field |-> "none", write |-> FALSE]

Access(t) ==
  LET th == threads[t]
  IN CASE th.pc \in {"size_test", "size_ret", "clamp"} ->
            [field |-> "size", write |-> FALSE]
       [] th.pc = "size_write" -> [field |-> "size", write |-> TRUE]
       [] th.pc \in {"client_test", "client_ret"} ->
            [field |-> "client", write |-> FALSE]
       [] th.pc = "client_new" -> [field |-> "client", write |-> TRUE]
       [] th.pc = "region_test" ->
            IF options # NoOptions /\ options = th.region
            THEN [field |-> "client", write |-> FALSE]
            ELSE NoAccess
       [] OTHER -> NoAccess

\* The values a read of ra.size by t may yield: the stored value, or, while
\* another goroutine is writing, the value being written or a torn one.
ReadOfSize(t) ==
  {size} \cup UNION {{threads[u].cl} \cup Torn(size, threads[u].cl) :
                       u \in {v \in Tids \ {t} :
                                threads[v].pc = "size_write"}}

\* The values a read of ra.client by t may yield: the stored pointer, or
\* the one another goroutine is storing.
ReadOfClient(t) ==
  {client} \cup {[region |-> options, origin |-> "options"] :
                   u \in {v \in Tids \ {t} : threads[v].pc = "client_new"}}

RaceFrame ==
  UNCHANGED <<kind, objSize, given, newErr, options, offset, last,
              lastOffset, made, headSent, headOk, call, ret, reqs, pre,
              script>>

\* Goroutine t goes on as th.
Goes(t, th) == threads' = [threads EXCEPT ![t] = th]

\* The call of goroutine t returns (n, err).
Returns(t, n, err) ==
  Goes(t, [ThreadIdle EXCEPT !.n = n, !.err = err])

\* A goroutine calls Size() or ReadAt(p, off) with a non-empty p.
RaceCall(t) ==
  /\ threads[t].pc = "idle"
  /\ \/ Goes(t, [ThreadIdle EXCEPT !.pc = "size_test", !.op = "Size"])
     \/ \E len \in 1..MaxLen, off \in 0..objSize :
          Goes(t, [ThreadIdle EXCEPT !.pc = "size_test", !.op = "ReadAt",
                                     !.len = len, !.off = off])
  /\ UNCHANGED <<size, client>>
  /\ RaceFrame

\* Size: `if ra.size >= 0`.
RaceSizeTest(t) ==
  /\ threads[t].pc = "size_test"
  /\ \E v \in ReadOfSize(t) :
       IF raSizeCached(v)
       THEN Goes(t, [threads[t] EXCEPT !.pc = "size_ret"])
       ELSE Goes(t, [threads[t] EXCEPT !.pc = "client_test",
                                       !.verb = "HeadObject"])
  /\ UNCHANGED <<size, client>>
  /\ RaceFrame

\* s3Client: `if ra.client != nil { return ra.client }`.
RaceClientTest(t) ==
  /\ threads[t].pc = "client_test"
  /\ \E v \in ReadOfClient(t) :
       IF v # NilClient \/ options = NoOptions
       THEN Goes(t, [threads[t] EXCEPT !.pc = "send", !.c = v])
       ELSE Goes(t, [threads[t] EXCEPT !.pc = "client_new"])
  /\ UNCHANGED <<size, client>>
  /\ RaceFrame

\* s3Client: `ra.client = s3.New(*ra.options)`.
RaceClientNew(t) ==
  /\ threads[t].pc = "client_new"
  /\ client' = [region |-> options, origin |-> "options"]
  /\ Goes(t, [threads[t] EXCEPT !.pc = "client_ret"])
  /\ UNCHANGED size
  /\ RaceFrame

\* s3Client: `return ra.client` after the store.
RaceClientRet(t) ==
  /\ threads[t].pc = "client_ret"
  /\ \E v \in ReadOfClient(t) :
       Goes(t, [threads[t] EXCEPT !.pc = "send", !.c = v])
  /\ UNCHANGED <<size, client>>
  /\ RaceFrame

\* The answer resp to the request of goroutine t is taken: a length goes on
\* to be stored, a body is read into p, a failure ends the call.
RaceAnswer(t, resp) ==
  LET th == threads[t]
  IN IF resp.kind # "ok" THEN Returns(t, IF th.op = "Size" THEN -1 ELSE 0,
                                      "backend")
     ELSE IF th.verb = "HeadObject"
     THEN IF resp.contentLength < 0
          THEN Returns(t, IF th.op = "Size" THEN -1 ELSE 0, "invalid")
          ELSE Goes(t, [th EXCEPT !.pc = "size_write",
                                  !.cl = resp.contentLength])
     ELSE LET rf == ReadFull(resp, th.lastIdx - th.off + 1)
          IN Returns(t, rf.n, rf.err.type)

RaceAnswers(t) ==
  IF threads[t].verb = "HeadObject" THEN HeadResponses
  ELSE GetResponses(threads[t].off, threads[t].lastIdx)

\* headObject / getObject: the request through s3Client().
RaceSend(t) ==
  /\ threads[t].pc = "send"
  /\ \E r \in RaceAnswers(t) :
       LET rg == extractRegionFromError(r)
       IN IF r.kind = "ok" \/ rg.failed THEN RaceAnswer(t, r)
          ELSE Goes(t, [threads[t] EXCEPT !.pc = "region_test",
                                          !.region = rg.region])
  /\ UNCHANGED <<size, client>>
  /\ RaceFrame

\* s3ClientInRegion: ra.client is read when ra.options names the region.
RaceRegionTest(t) ==
  /\ threads[t].pc = "region_test"
  /\ \E v \in (IF Access(t) = NoAccess THEN {client} ELSE ReadOfClient(t)) :
       LET c2 == s3ClientInRegion([Reader EXCEPT !.client = v],
                                  threads[t].region).client
       IN IF c2 = NilClient
          THEN Returns(t, IF threads[t].op = "Size" THEN -1 ELSE 0,
                       "backend")
          ELSE Goes(t, [threads[t] EXCEPT !.pc = "resend", !.c = c2])
  /\ UNCHANGED <<size, client>>
  /\ RaceFrame

\* headObject / getObject: the request once more, in the region named.
RaceResend(t) ==
  /\ threads[t].pc = "resend"
  /\ \E r \in RaceAnswers(t) : RaceAnswer(t, r)
  /\ UNCHANGED <<size, client>>
  /\ RaceFrame

\* Size: `ra.size = resp.ContentLength`.
RaceSizeWrite(t) ==
  /\ threads[t].pc = "size_write"
  /\ size' = threads[t].cl
  /\ Goes(t, [threads[t] EXCEPT !.pc = "size_ret"])
  /\ UNCHANGED client
  /\ RaceFrame

\* Size: `return ra.size, nil`; ReadAt goes on to its clamp.
RaceSizeRet(t) ==
  /\ threads[t].pc = "size_ret"
  /\ \E v \in ReadOfSize(t) :
       IF threads[t].op = "Size" THEN Returns(t, v, "nil")
       ELSE Goes(t, [threads[t] EXCEPT !.pc = "clamp"])
  /\ UNCHANGED <<size, client>>
  /\ RaceFrame

\* ReadAt: the clamp against ra.size, then on to getObject.
RaceClamp(t) ==
  /\ threads[t].pc = "clamp"
  /\ \E v \in ReadOfSize(t) :
       LET th == threads[t]
           clamp == clampNeeded(v, th.len, th.off)
           reqLast == IF clamp THEN v - 1 ELSE th.off + th.len - 1
       IN IF clamp /\ reqLast < th.off THEN Returns(t, 0, "EOF")
          ELSE Goes(t, [th EXCEPT !.pc = "client_test",
                                  !.verb = "GetObject",
                                  !.lastIdx = reqLast])
  /\ UNCHANGED <<size, client>>
  /\ RaceFrame

InitRace ==
  /\ Init
  /\ kind = "S3ReaderAt"
  /\ newErr = "nil"

NextRace ==
  \E t \in Tids :
    \/ RaceCall(t)
    \/ RaceSizeTest(t)
    \/ RaceClientTest(t)
    \/ RaceClientNew(t)
    \/ RaceClientRet(t)
    \/ RaceSend(t)
    \/ RaceRegionTest(t)
    \/ RaceResend(t)
    \/ RaceSizeWrite(t)
    \/ RaceSizeRet(t)
    \/ RaceClamp(t)

SpecRace == InitRace /\ [][NextRace]_vars

----------------------------------------------------------------------------

(* SeekingS3 shared by goroutines: ReadAt and Read taken apart into the    *)
(* statements that read or write s.size, s.last, s.lastOffset, s.offset,   *)
(* which the code makes without a lock; the statements interleave freely.  *)

SharedFrame ==
  UNCHANGED <<kind, objSize, given, newErr, options, client, made, headSent,
              headOk, call, ret, reqs, pre, script>>

\* The ReadAt of goroutine t returns (n, err) with data in its buffer.
SharedReturns(t, n, err, data) ==
  LET th == threads[t]
      out == [ThreadIdle EXCEPT !.off = th.off, !.n = n, !.err = err,
                                !.data = data]
  IN IF th.op = "Read" /\ err = "nil"
     THEN Goes(t, [out EXCEPT !.pc = "advance"])
     ELSE Goes(t, out)

\* A goroutine calls ReadAt(buf, off), or Read(buf), which passes s.offset.
SharedCall(t) ==
  /\ threads[t].pc = "idle"
  /\ \E len \in 1..MaxShared :
       \/ \E off \in 0..objSize :
            Goes(t, [ThreadIdle EXCEPT !.pc = "size", !.op = "ReadAt",
                                       !.len = len, !.off = off])
       \/ Goes(t, [ThreadIdle EXCEPT !.pc = "size", !.op = "Read",
                                     !.len = len, !.off = offset])
  /\ UNCHANGED <<size, offset, last, lastOffset>>
  /\ SharedFrame

\* ReadAt: `size, err := s.Size()`, then `if off >= size`.
SharedSize(t) ==
  /\ threads[t].pc = "size"
  /\ \E r \in SeekingS3_Size(Reader) :
       /\ size' = r.st.size
       /\ IF r.err # Nil THEN SharedReturns(t, 0, r.err.type, <<>>)
          ELSE IF threads[t].off >= r.n
          THEN SharedReturns(t, 0, "EOF", <<>>)
          ELSE Goes(t, [threads[t] EXCEPT !.pc = "cache", !.cl = r.n])
  /\ UNCHANGED <<offset, last, lastOffset>>
  /\ SharedFrame

\* ReadAt: the cache test and, on a hit, the copy out of s.last.
SharedCache(t) ==
  /\ threads[t].pc = "cache"
  /\ LET th == threads[t]
         bytesToRead == IF th.off + th.len > th.cl THEN th.cl - th.off
                        ELSE th.len
     IN IF cacheHit(Reader, th.len, th.off)
        THEN SharedReturns(t, th.len, "nil", cacheCopy(Reader, th.len, th.off))
        ELSE Goes(t, [th EXCEPT !.pc = "reset", !.n = bytesToRead,
                                !.lastIdx = fmtRange(th.off, bytesToRead)[2]])
  /\ UNCHANGED <<size, offset, last, lastOffset>>
  /\ SharedFrame

\* ReadAt: `s.last = &bytes.Buffer{}` or `s.last.Reset()`.
SharedReset(t) ==
  /\ threads[t].pc = "reset"
  /\ last' = Buffer(<<>>)
  /\ Goes(t, [threads[t] EXCEPT !.pc = "get"])
  /\ UNCHANGED <<size, offset, lastOffset>>
  /\ SharedFrame

\* ReadAt: `resp, err := s.client.GetObject(...)`; the answers are the
\* failures and the bodies that arrive whole.
SharedGet(t) ==
  /\ threads[t].pc = "get"
  /\ \E r \in {a \in GetResponses(threads[t].off, threads[t].lastIdx) :
                 Served(<<[resp |-> a]>>)} \cup Failures :
       IF r.kind # "ok" THEN SharedReturns(t, 0, "backend", <<>>)
       ELSE Goes(t, [threads[t] EXCEPT !.pc = "readfrom", !.data = r.body])
  /\ UNCHANGED <<size, offset, last, lastOffset>>
  /\ SharedFrame

\* ReadAt: `s.last.ReadFrom(resp.Body)`, which appends to what s.last holds.
SharedReadFrom(t) ==
  /\ threads[t].pc = "readfrom"
  /\ last' = Buffer(last.bytes \o threads[t].data)
  /\ Goes(t, [threads[t] EXCEPT !.pc = "setoffset", !.data = <<>>])
  /\ UNCHANGED <<size, offset, lastOffset>>
  /\ SharedFrame

\* ReadAt: `s.lastOffset = off`.
SharedSetOffset(t) ==
  /\ threads[t].pc = "setoffset"
  /\ lastOffset' = threads[t].off
  /\ Goes(t, [threads[t] EXCEPT !.pc = "copy"])
  /\ UNCHANGED <<size, offset, last>>
  /\ SharedFrame

\* ReadAt: the copy of s.last.Bytes() into buf and the return.
SharedCopy(t) ==
  /\ threads[t].pc = "copy"
  /\ LET th == threads[t]
         n == Min(Len(last.bytes), th.len)
     IN SharedReturns(t, th.n, "nil", Prefix(last.bytes, n))
  /\ UNCHANGED <<size, offset, last, lastOffset>>
  /\ SharedFrame

\* Read: `s.offset += int64(n)`.
SharedAdvance(t) ==
  /\ threads[t].pc = "advance"
  /\ offset' = offset + threads[t].n
  /\ Goes(t, [threads[t] EXCEPT !.pc = "idle"])
  /\ UNCHANGED <<size, last, lastOffset>>
  /\ SharedFrame

InitShared ==
  /\ script = NoScript
  /\ threads = [t \in Tids |-> ThreadIdle]
  /\ \E n \in 1..MaxShared : InitSeeking(n)

NextShared ==
  \E t \in Tids :
    \/ SharedCall(t)
    \/ SharedSize(t)
    \/ SharedCache(t)
    \/ SharedReset(t)
    \/ SharedGet(t)
    \/ SharedReadFrom(t)
    \/ SharedSetOffset(t)
    \/ SharedCopy(t)
    \/ SharedAdvance(t)

SpecShared == InitShared /\ [][NextShared]_vars

----------------------------------------------------------------------------

(* Vocabulary of the properties: they are read in the state right after a  *)
(* call, where call/ret/reqs describe it and pre holds the fields before.  *)

ReqsOf(v) == SelectSeq(reqs, LAMBDA q : q.verb = v)

\* The backend served the call: the size is resolved, and the last request
\* sent, if any, was answered with success and an unbroken body.
BackendServed ==
  /\ size >= 0
  /\ reqs # <<>> =>
       LET q == reqs[Len(reqs)]
       IN /\ q.resp.kind = "ok"
          /\ q.verb = "GetObject" =>
               /\ Len(q.resp.body) = q.resp.contentLength
               /\ q.resp.tail = "eof"

\* A cache hit of SeekingS3.ReadAt: bytes came back and no range was fetched.
ServedFromCache ==
  /\ kind = "SeekingS3"
  /\ ~pre.last.nil
  /\ GetCount(reqs) = 0
  /\ ret.n > 0

----------------------------------------------------------------------------
(* C1..C5 *)

\* C1: a ReadAt of either reader with off >= 0, len > 0 and off+len <= size,
\* served by the backend, returns exactly len bytes, equal to
\* object[off, off+len), and a nil error; on a cache hit and on a miss,
\* after any earlier calls.
C1_ReadAtReturnsSlice ==
  ( /\ call.op = "ReadAt"
    /\ call.off >= 0
    /\ call.len > 0
    /\ call.off + call.len <= objSize
    /\ BackendServed )
  => /\ ret.n = call.len
     /\ ret.err = Nil
     /\ ret.data = ObjSlice(call.off, call.off + call.len - 1)

\* Reached: SeekingS3.ReadAt answers a read inside the object from its
\* cached window.
C1_Witness ==
  /\ call.op = "ReadAt"
  /\ call.off >= 0
  /\ call.len > 0
  /\ call.off + call.len <= objSize
  /\ ServedFromCache
  /\ ret.n = call.len
  /\ ret.data = ObjSlice(call.off, call.off + call.len - 1)

\* C2: a ReadAt of either reader with 0 <= off < size < off+len, served by
\* the backend, returns the size-off bytes of the object's tail together
\* with io.EOF.
C2_ClampedReadReturnsEOF ==
  ( /\ call.op = "ReadAt"
    /\ call.off >= 0
    /\ call.off < objSize
    /\ objSize < call.off + call.len
    /\ BackendServed )
  => /\ ret.n = objSize - call.off
     /\ ret.data = ObjSlice(call.off, objSize - 1)
     /\ ret.err = EOF

\* C3: a ReadAt with an empty buffer returns 0 bytes and a nil error, sends
\* no request and leaves the reader's fields as they were, in both readers,
\* for every offset and every state of the reader.
C3_EmptyReadDoesNothing ==
  (call.op = "ReadAt" /\ call.len = 0)
  => /\ ret.n = 0
     /\ ret.err = Nil
     /\ reqs = <<>>
     /\ Fields = pre

\* C4: a ReadAt with a non-empty buffer at off >= size sends no GetObject,
\* whatever the cache holds; it sends no request at all when the size was
\* known, and wherever the size is resolved it returns 0 bytes and io.EOF.
C4_ReadPastEndSendsNothing ==
  (call.op = "ReadAt" /\ call.len > 0 /\ call.off >= objSize)
  => /\ GetCount(reqs) = 0
     /\ pre.size >= 0 => reqs = <<>>
     /\ size >= 0 => ret = [n |-> 0, err |-> EOF, data |-> <<>>]

\* Reached: SeekingS3.ReadAt at or past the end while a window is cached.
C4_Witness ==
  /\ kind = "SeekingS3"
  /\ call.op = "ReadAt"
  /\ call.len > 0
  /\ call.off >= objSize
  /\ ~pre.last.nil
  /\ Len(pre.last.bytes) > 0
  /\ ret.err = EOF
  /\ ret.n = 0

\* C5: once the size is resolved, no call (Size, ReadAt, Seek, Read,
\* succeeding or failing) changes it, and Size returns it without sending
\* a request.
C5_ResolvedSizeIsFinal ==
  pre.size >= 0
  => /\ size = pre.size
     /\ call.op = "Size" =>
          /\ ret.n = pre.size
          /\ ret.err = Nil
          /\ reqs = <<>>

\* Reached: Size called again after an earlier call resolved a size of 0
\* through HeadObject.
C5_Witness ==
  /\ call.op = "Size"
  /\ pre.size = 0
  /\ headOk = 1
  /\ ret.n = objSize
  /\ reqs = <<>>

----------------------------------------------------------------------------
(* C6..C10 *)

Verbs == {"HeadObject", "GetObject"}

MultiRegion == kind = "S3ReaderAt" /\ options # NoOptions

\* A failure that names a region to retry in: a 3xx response that carries
\* the region header.
Recoverable(resp) ==
  /\ resp.kind = "http"
  /\ resp.code >= 300
  /\ resp.code < 400
  /\ resp.region # ""

\* The call reports answer resp to its request of verb v as it came: a
\* failure is the cause of the returned error and ends the call; a length
\* becomes the cached size; a body is what the buffer received.
ReportsOutcome(v, resp) ==
  IF resp.kind # "ok"
  THEN /\ ret.err.type = "backend"
       /\ ret.err.cause = resp
       /\ ret.data = <<>>
       /\ v = "HeadObject" => GetCount(reqs) = 0
  ELSE IF v = "HeadObject"
  THEN IF resp.contentLength >= 0
       THEN size = resp.contentLength
       ELSE size = -1 /\ ret.err.type = "invalid"
  ELSE /\ ret.err.type # "backend"
       /\ ret.n <= Len(resp.body)
       /\ ret.data = Prefix(resp.body, ret.n)

\* C6 as stated: over the reader's lifetime at most one HeadObject request
\* is sent.
C6_AtMostOneHeadEver == headSent <= 1

\* C6 as amended: at most one HeadObject is ever answered with a valid
\* length, and once the size is resolved no call sends another; a call made
\* while the size is unknown sends one HeadObject, or two when a region
\* redirect is retried in multi-region mode; Size on a resolved reader
\* returns the resolved value.
C6_NoHeadOnceResolved ==
  /\ headOk <= 1
  /\ pre.size >= 0 => HeadCount(reqs) = 0
  /\ HeadCount(reqs) <= (IF MultiRegion THEN 2 ELSE 1)
  /\ (call.op = "Size" /\ pre.size >= 0) =>
       (ret.n = pre.size /\ ret.err = Nil)

\* Reached: SeekingS3.Size on a resolved reader whose first HeadObject had
\* failed and whose second one resolved the size.
C6_Witness ==
  /\ kind = "SeekingS3"
  /\ call.op = "Size"
  /\ pre.size >= 0
  /\ headSent >= 2
  /\ headOk = 1
  /\ HeadCount(reqs) = 0
  /\ ret.n = objSize

\* C7: no call sends more than two requests of one kind; in multi-region
\* mode, when the first HeadObject or GetObject of a call fails with a 3xx
\* that names region r, the same input is sent exactly once more, through a
\* client bound to r, and the call reports that second answer as it came.
C7_RetryOnceInNamedRegion ==
  /\ \A v \in Verbs : Len(ReqsOf(v)) <= 2
  /\ MultiRegion =>
       \A v \in Verbs :
         LET q == ReqsOf(v)
         IN (Len(q) >= 1 /\ Recoverable(q[1].resp)) =>
              /\ Len(q) = 2
              /\ q[2].input = q[1].input
              /\ q[2].via.region = q[1].resp.region
              /\ ReportsOutcome(v, q[2].resp)

\* Reached: a multi-region ReadAt whose HeadObject and GetObject were both
\* redirected to region B and both succeeded there.
C7_Witness ==
  /\ MultiRegion
  /\ call.op = "ReadAt"
  /\ Len(reqs) = 4
  /\ Recoverable(reqs[1].resp)
  /\ reqs[1].resp.region = "B"
  /\ reqs[2].via.region = "B"
  /\ Recoverable(reqs[3].resp)
  /\ reqs[4].via.region = "B"
  /\ ret.err = Nil
  /\ ret.n = call.len

\* C8: when a request of S3ReaderAt fails and recovery is not possible (the
\* failure is not a 3xx naming a region, or the reader is in single-region
\* mode), that request is the only one of its kind the call sends, and Size
\* or ReadAt returns an error whose cause is that failure, unchanged.
C8_NoRetryWithoutRecovery ==
  kind = "S3ReaderAt" =>
    \A v \in Verbs :
      LET q == ReqsOf(v)
      IN ( /\ Len(q) >= 1
           /\ q[1].resp.kind # "ok"
           /\ (options = NoOptions \/ ~Recoverable(q[1].resp)) )
         => /\ Len(q) = 1
            /\ call.op \in {"Size", "ReadAt"}
            /\ ret.err.type = "backend"
            /\ ret.err.cause = q[1].resp
            /\ ret.n = (IF call.op = "Size" THEN -1 ELSE 0)

\* Reached: a single-region ReadAt with a known size whose GetObject was
\* answered 301 with the region header; the 301 is the cause of the error.
C8_Witness ==
  /\ kind = "S3ReaderAt"
  /\ options = NoOptions
  /\ call.op = "ReadAt"
  /\ pre.size >= 0
  /\ Len(reqs) = 1
  /\ reqs[1].verb = "GetObject"
  /\ Recoverable(reqs[1].resp)
  /\ ret.err.cause.code = 301
  /\ ret.n = 0

\* Regional clients for region r that were built before the call started.
MadeBefore(r) ==
  made[r] - Cardinality({i \in 1..Len(reqs) :
                           reqs[i].via = [region |-> r,
                                          origin |-> "regional"]})

\* C9: in multi-region mode at most one regional client is built per
\* region, and a call made after a regional client was built sends its
\* requests through a regional client from the first one on.
C9_RegionalClientBuiltOnce ==
  MultiRegion =>
    /\ \A r \in Regions : made[r] <= 1
    /\ ((\E r \in Regions : MadeBefore(r) >= 1) /\ reqs # <<>>) =>
         reqs[1].via.origin = "regional"

\* C10: a SeekingS3.ReadAt whose window [off, off+len) lies within the
\* cached window [lastOffset, lastOffset+Len(last)) sends no request and
\* returns the object's bytes of that window.
C10_ContainedReadHitsCache ==
  ( /\ kind = "SeekingS3"
    /\ call.op = "ReadAt"
    /\ call.len > 0
    /\ ~pre.last.nil
    /\ pre.lastOffset <= call.off
    /\ call.off + call.len <= pre.lastOffset + Len(pre.last.bytes) )
  => /\ reqs = <<>>
     /\ ret.n = call.len
     /\ ret.data = ObjSlice(call.off, call.off + call.len - 1)

----------------------------------------------------------------------------
(* C11..C15 *)

\* The cached window a buffer and a start offset stand for: none while the
\* buffer is nil or holds no bytes, else the offset paired with the bytes.
Window(buf, off) ==
  IF buf.nil \/ buf.bytes = <<>> THEN <<>> ELSE <<off, buf.bytes>>

\* C11: after a SeekingS3.ReadAt the cached window is the most recent
\* successful fetch: a call that fetched with success holds the requested
\* offset with the fetched bytes; a call whose fetch failed, and a call that
\* fetched nothing, hold the window the call started with.
C11_CacheIsLastSuccessfulFetch ==
  (kind = "SeekingS3" /\ call.op = "ReadAt")
  => LET g == ReqsOf("GetObject")
     IN IF g # <<>> /\ g[Len(g)].resp.kind = "ok"
        THEN Window(last, lastOffset)
               = Window(Buffer(g[Len(g)].resp.body), call.off)
        ELSE Window(last, lastOffset) = Window(pre.last, pre.lastOffset)

\* The HeadObject of the call failed to resolve the size: it was answered
\* with a failure or with a negative length.
SizeResolutionFailed ==
  LET h == ReqsOf("HeadObject")
  IN /\ h # <<>>
     /\ \/ h[Len(h)].resp.kind # "ok"
        \/ h[Len(h)].resp.contentLength < 0

\* The call reports the failed size resolution: its error has the failure
\* of the request as its cause, or is the error for a negative length.
ReportsSizeFailure ==
  LET h == ReqsOf("HeadObject")
      r == h[Len(h)].resp
  IN IF r.kind # "ok" THEN ret.err.type = "backend" /\ ret.err.cause = r
     ELSE ret.err.type = "invalid"

\* C12: a Seek with a whence other than SeekStart, SeekCurrent, SeekEnd
\* returns os.ErrInvalid without sending a request; a Seek from the end
\* whose size resolution fails returns that failure; a Seek fails in these
\* two cases only, and a failed Seek leaves the cursor, the cached window
\* and the cached size as they were.
C12_FailedSeekKeepsCursor ==
  (kind = "SeekingS3" /\ call.op = "Seek")
  => /\ call.whence \notin {SeekStart, SeekCurrent, SeekEnd} =>
          (ret.err = ErrInvalid /\ reqs = <<>>)
     /\ (call.whence = SeekEnd /\ SizeResolutionFailed) =>
          ReportsSizeFailure
     /\ ret.err # Nil <=>
          \/ call.whence \notin {SeekStart, SeekCurrent, SeekEnd}
          \/ call.whence = SeekEnd /\ SizeResolutionFailed
     /\ ret.err # Nil =>
          /\ ret.n = 0
          /\ offset = pre.offset
          /\ last = pre.last
          /\ lastOffset = pre.lastOffset
          /\ size = pre.size

\* Reached: with the cursor moved off 0 and the size unknown, a Seek from
\* the end, to a position other than the cursor's, whose HeadObject fails.
C12_Witness ==
  /\ kind = "SeekingS3"
  /\ call.op = "Seek"
  /\ call.whence = SeekEnd
  /\ pre.offset > 0
  /\ call.off # pre.offset
  /\ objSize + call.off # pre.offset
  /\ SizeResolutionFailed
  /\ ret.err.type = "backend"
  /\ offset = pre.offset

\* Reached: with the cursor moved off 0, a Seek with an unknown whence.
C12_WitnessWhence ==
  /\ kind = "SeekingS3"
  /\ call.op = "Seek"
  /\ call.whence = 3
  /\ pre.offset > 0
  /\ call.off # pre.offset
  /\ ret.err = ErrInvalid
  /\ offset = pre.offset

\* C13: a SeekingS3.Read fetches at the cursor, and when it returns the
\* cursor has moved by the number of bytes written into the buffer, also
\* for a read clamped by the end of the object.
C13_ReadAdvancesByWritten ==
  (kind = "SeekingS3" /\ call.op = "Read")
  => /\ \A i \in 1..Len(reqs) :
          reqs[i].verb = "GetObject" => reqs[i].input[1] = pre.offset
     /\ offset = pre.offset + Len(ret.data)

Race ==
  \E t \in Tids, u \in Tids :
    /\ t # u
    /\ Access(t).write
    /\ Access(u).field = Access(t).field

\* C15: with goroutines calling ReadAt and Size on one S3ReaderAt, no state
\* has one call writing ra.size or ra.client while another call reads or
\* writes that field, and ra.size only ever holds -1 or the object's length.
C15_NoConcurrentFieldAccess ==
  /\ ~Race
  /\ size \in {-1, objSize}

----------------------------------------------------------------------------
(* C16..C20 *)

\* C16: with goroutines calling ReadAt and Read on one SeekingS3 and every
\* body arriving whole, a call that returns n bytes and no error has put
\* the object's n bytes at the offset it asked for into its buffer, and
\* while no call is under way the cached window holds the object's bytes at
\* lastOffset.
C16_ConcurrentReadsSerialized ==
  /\ \A t \in Tids :
       LET th == threads[t]
       IN (th.pc \in {"idle", "advance"} /\ th.err = "nil")
          => th.data = ObjSlice(th.off, th.off + th.n - 1)
  /\ ( /\ \A t \in Tids : threads[t].pc = "idle"
       /\ last.bytes # <<>> )
     => last.bytes = ObjSlice(lastOffset, lastOffset + Len(last.bytes) - 1)

\* C17: every GetObject a ReadAt or Read sends asks for bytes=first-last
\* with 0 <= first <= last <= size-1, whatever the offset (negative ones
\* included), the buffer length and the object's size.
C17_RangesWellFormed ==
  call.op \in {"ReadAt", "Read"}
  => \A i \in 1..Len(reqs) :
       reqs[i].verb = "GetObject"
       => /\ 0 <= reqs[i].input[1]
          /\ reqs[i].input[1] <= reqs[i].input[2]
          /\ reqs[i].input[2] <= objSize - 1

\* The Options given to NewWithOptions are refused: neither or both of
\* Client and Options, or a negative size.
BadOptions(o) ==
  \/ o.Client = NilClient /\ o.Options = NoOptions
  \/ o.Client # NilClient /\ o.Options # NoOptions
  \/ o.Size.set /\ o.Size.val < 0

\* C18: NewWithOptions fails, and builds no reader, exactly when neither or
\* both of Client and Options are given or the given size is negative;
\* otherwise the reader's cached size is the given size (0 included), or -1
\* when none was given, until a HeadObject resolves it.
C18_ConstructionChecksOptions ==
  kind = "S3ReaderAt"
  => /\ newErr # "nil" <=> BadOptions(given)
     /\ newErr # "nil" =>
          /\ size = -1
          /\ client = NilClient
          /\ options = NoOptions
          /\ call = NoCall
          /\ headSent = 0
     /\ (newErr = "nil" /\ headOk = 0) =>
          /\ size = (IF given.Size.set THEN given.Size.val ELSE -1)
          /\ options = given.Options
          /\ given.Client # NilClient => client = given.Client

\* Reached: a reader built in multi-region mode with a size of 0 given, in
\* use with that size (a read at offset 0 has returned io.EOF unasked).
C18_Witness ==
  /\ kind = "S3ReaderAt"
  /\ newErr = "nil"
  /\ given.Options # NoOptions
  /\ given.Size = SomeSize(0)
  /\ size = 0
  /\ call.op = "ReadAt"
  /\ call.len > 0
  /\ reqs = <<>>
  /\ ret.err = EOF

\* The body of the range response the call read fell short of the bytes
\* the call needed, the range asked for lying within the object.
BodyTruncated ==
  LET g == ReqsOf("GetObject")
      q == g[Len(g)]
  IN /\ g # <<>>
     /\ q.resp.kind = "ok"
     /\ 0 <= q.input[1]
     /\ q.input[2] <= objSize - 1
     /\ Len(q.resp.body) < Min(call.len, objSize - call.off)

\* C19: a ReadAt whose range response ends before the bytes needed have
\* been read, for a range within the object, returns an error that is not
\* io.EOF.
C19_TruncationIsNotEOF ==
  (call.op = "ReadAt" /\ call.len > 0 /\ BodyTruncated)
  => /\ ret.err # Nil
     /\ ret.err # EOF

\* C20: a ReadAt (or Read) inside which the size resolution fails returns 0
\* bytes with that failure, sends no GetObject, writes nothing into the
\* buffer, and leaves the size unknown and the cached window and the cursor
\* as they were.
C20_FailedSizeStopsRead ==
  (call.op \in {"ReadAt", "Read"} /\ SizeResolutionFailed)
  => /\ ret.n = 0
     /\ ret.data = <<>>
     /\ ReportsSizeFailure
     /\ GetCount(reqs) = 0
     /\ size = -1
     /\ last = pre.last
     /\ lastOffset = pre.lastOffset
     /\ offset = pre.offset

\* Reached: a multi-region S3ReaderAt.ReadAt whose HeadObject was redirected
\* and failed again in the region named.
C20_Witness ==
  /\ MultiRegion
  /\ call.op = "ReadAt"
  /\ call.len > 0
  /\ Len(reqs) = 2
  /\ SizeResolutionFailed
  /\ reqs[2].resp.kind = "net"
  /\ ret.err.cause = reqs[2].resp
  /\ ret.n = 0

\* Reached: a SeekingS3.Read at a cursor moved off 0 whose HeadObject
\* reports a negative length.
C20_WitnessRead ==
  /\ kind = "SeekingS3"
  /\ call.op = "Read"
  /\ call.len > 0
  /\ pre.offset > 0
  /\ SizeResolutionFailed
  /\ ret.err.type = "invalid"
  /\ offset = pre.offset

----------------------------------------------------------------------------
(* C21..C22 *)

\* C21: the count a ReadAt returns never exceeds the bytes put into the
\* caller's buffer, and a ReadAt that returns (n, nil) has put
\* object[off, off+n) there, also when the response body is short or
\* breaks part-way.
C21_CountWithinBytesWritten ==
  call.op = "ReadAt"
  => /\ ret.n <= Len(ret.data)
     /\ ret.err = Nil =>
          /\ Len(ret.data) = ret.n
          /\ ret.data = ObjSlice(call.off, call.off + ret.n - 1)

\* A Read of the scan has just returned.
ScanReadDone == script.pc = 1 /\ call.op = "Read"

\* The scan has ended at the object's end: its last Read returned 0 bytes
\* and io.EOF with the cursor at size.
ScanEnded ==
  /\ ScanReadDone
  /\ pre.offset = objSize
  /\ offset = objSize
  /\ ret = [n |-> 0, err |-> EOF, data |-> <<>>]

\* A Read of the scan from a cursor before the object's end returns no
\* error and moves the cursor on by at least one byte, not past the end; a
\* Read from the end returns 0 bytes and io.EOF.
ScanStep ==
  ScanReadDone
  => /\ pre.offset < objSize =>
          /\ ret.err = Nil
          /\ ret.n >= 1
          /\ offset >= pre.offset + 1
          /\ offset <= objSize
     /\ pre.offset >= objSize => ScanEnded

====
